---- MODULE Spec2Model ----
(***************************************************************************)
(* ROIAlign::forward of src/layer/roialign.cpp as a state machine.          *)
(*                                                                         *)
(* A float is modelled as an exact rational <<numerator, denominator>> in   *)
(* lowest terms with a positive denominator, so every arithmetic step of    *)
(* the code is computed as written, without rounding.  The int variables    *)
(* of the code are integers.                                               *)
(***************************************************************************)
EXTENDS Integers, Sequences, FiniteSets, TLC

(***************************************************************************)
(* Bounds of the explored inputs.                                          *)
(***************************************************************************)
MaxDim == 2
MaxChannels == 2
MaxThreads == 2
MaxPooled == 2
MaxRatio == 2

(***************************************************************************)
(* Rational arithmetic (the float operations of the code).                  *)
(***************************************************************************)
Abs(i) == IF i < 0 THEN -i ELSE i

RECURSIVE GCD(_, _)
GCD(a, b) == IF b = 0 THEN a ELSE GCD(b, a % b)

Rat(n, d) ==
    LET s == IF d < 0 THEN -1 ELSE 1
        g == GCD(Abs(n), Abs(d))
    IN  <<(s * n) \div g, (s * d) \div g>>

FromInt(i) == <<i, 1>>
Half == <<1, 2>>
Zero == <<0, 1>>
One == <<1, 1>>

RAdd(a, b) == Rat(a[1] * b[2] + b[1] * a[2], a[2] * b[2])
RSub(a, b) == Rat(a[1] * b[2] - b[1] * a[2], a[2] * b[2])
RMul(a, b) == Rat(a[1] * b[1], a[2] * b[2])
RDiv(a, b) == Rat(a[1] * b[2], a[2] * b[1])
RLt(a, b) == a[1] * b[2] < b[1] * a[2]
RLe(a, b) == a[1] * b[2] <= b[1] * a[2]
RMax(a, b) == IF RLt(a, b) THEN b ELSE a

\* (int)v : conversion of a float to int truncates toward zero
Trunc(a) == IF a[1] >= 0 THEN a[1] \div a[2] ELSE -((-a[1]) \div a[2])
\* std::ceil(v) converted to int
Ceil(a) == -((-a[1]) \div a[2])
IMax(i, j) == IF i < j THEN j ELSE i

(***************************************************************************)
(* ROI preprocessing of ROIAlign::forward.  L is the layer (its parameters  *)
(* pooled_width, pooled_height, spatial_scale, sampling_ratio, aligned),    *)
(* roi the four floats roi_ptr[0..3] (1-based here).                       *)
(***************************************************************************)
\* mutant: the half-pixel offset applied in the other mode
offset_Swapped(L) == IF L.aligned THEN Zero ELSE Half

offset(L) == IF L.aligned THEN Half ELSE Zero

roi_start_w(L, roi) == RSub(RMul(roi[1], L.spatial_scale), offset(L))
roi_start_h(L, roi) == RSub(RMul(roi[2], L.spatial_scale), offset(L))
roi_end_w(L, roi) == RSub(RMul(roi[3], L.spatial_scale), offset(L))
roi_end_h(L, roi) == RSub(RMul(roi[4], L.spatial_scale), offset(L))

roi_width(L, roi) ==
    LET d == RSub(roi_end_w(L, roi), roi_start_w(L, roi))
    IN  IF ~L.aligned THEN RMax(d, One) ELSE d

roi_height(L, roi) ==
    LET d == RSub(roi_end_h(L, roi), roi_start_h(L, roi))
    IN  IF ~L.aligned THEN RMax(d, One) ELSE d

bin_size_w(L, roi) == RDiv(roi_width(L, roi), FromInt(L.pooled_width))
bin_size_h(L, roi) == RDiv(roi_height(L, roi), FromInt(L.pooled_height))

\* mutant: the adaptive grid truncated instead of rounded up
roi_bin_grid_h_Truncated(L, roi) ==
    IF L.sampling_ratio > 0 THEN L.sampling_ratio
    ELSE Trunc(RDiv(roi_height(L, roi), FromInt(L.pooled_height)))

roi_bin_grid_h(L, roi) ==
    IF L.sampling_ratio > 0 THEN L.sampling_ratio
    ELSE Ceil(RDiv(roi_height(L, roi), FromInt(L.pooled_height)))

roi_bin_grid_w(L, roi) ==
    IF L.sampling_ratio > 0 THEN L.sampling_ratio
    ELSE Ceil(RDiv(roi_width(L, roi), FromInt(L.pooled_width)))

count(L, roi) == IMax(roi_bin_grid_h(L, roi) * roi_bin_grid_w(L, roi), 1)

\* the int handed to the constructor of std::vector<PreCalc<float>>
pre_calc_size(L, roi) ==
    roi_bin_grid_h(L, roi) * roi_bin_grid_w(L, roi) * L.pooled_width * L.pooled_height

(***************************************************************************)
(* pre_calc_for_bilinear_interpolate: the body of the innermost loop.       *)
(***************************************************************************)
\* yy of iteration (ph, iy), xx of iteration (pw, ix)
yy(L, roi, ph, iy) ==
    RAdd(RAdd(roi_start_h(L, roi), RMul(FromInt(ph), bin_size_h(L, roi))),
         RDiv(RMul(RAdd(FromInt(iy), Half), bin_size_h(L, roi)),
              FromInt(roi_bin_grid_h(L, roi))))

xx(L, roi, pw, ix) ==
    RAdd(RAdd(roi_start_w(L, roi), RMul(FromInt(pw), bin_size_w(L, roi))),
         RDiv(RMul(RAdd(FromInt(ix), Half), bin_size_w(L, roi)),
              FromInt(roi_bin_grid_w(L, roi))))

\* mutant: the last row and column taken for the outside
IsOutside_TightEdge(y, x, height, width) ==
    \/ RLt(y, FromInt(-1))
    \/ RLt(FromInt(height - 1), y)
    \/ RLt(x, FromInt(-1))
    \/ RLt(FromInt(width - 1), x)

\* mutant: the upper edges not tested
IsOutside_LowOnly(y, x, height, width) ==
    RLt(y, FromInt(-1)) \/ RLt(x, FromInt(-1))

\* the test guarding the "empty" stencil
IsOutside(y, x, height, width) ==
    \/ RLt(y, FromInt(-1))
    \/ RLt(FromInt(height), y)
    \/ RLt(x, FromInt(-1))
    \/ RLt(FromInt(width), x)

\* mutant: the clamp to 0 left out
ClampLow_Missing(v) == v

\* if (v <= 0) v = 0;
ClampLow(v) == IF RLe(v, Zero) THEN Zero ELSE v

\* mutant: the clamp to the last row or column left out
LowHigh_NoClamp(v, size) ==
    [low |-> Trunc(v), high |-> Trunc(v) + 1, v |-> v]

\* v_low, v_high and the possibly snapped v, for one axis of extent size
LowHigh(v, size) ==
    LET low == Trunc(v)
    IN  IF low >= size - 1
        THEN [low |-> size - 1, high |-> size - 1, v |-> FromInt(size - 1)]
        ELSE [low |-> low, high |-> low + 1, v |-> v]

Weights(ly, lx) ==
    LET hy == RSub(One, ly)
        hx == RSub(One, lx)
    IN  [w1 |-> RMul(hy, hx), w2 |-> RMul(hy, lx),
         w3 |-> RMul(ly, hx), w4 |-> RMul(ly, lx)]

EmptyPreCalc ==
    [pos1 |-> 0, pos2 |-> 0, pos3 |-> 0, pos4 |-> 0,
     w1 |-> Zero, w2 |-> Zero, w3 |-> Zero, w4 |-> Zero]

\* the PreCalc the loop body stores for sample point (y, x)
Stencil(y, x, height, width) ==
    IF IsOutside(y, x, height, width) THEN EmptyPreCalc
    ELSE LET Y == LowHigh(ClampLow(y), height)
             X == LowHigh(ClampLow(x), width)
             w == Weights(RSub(Y.v, FromInt(Y.low)), RSub(X.v, FromInt(X.low)))
         IN  [pos1 |-> Y.low * width + X.low,
              pos2 |-> Y.low * width + X.high,
              pos3 |-> Y.high * width + X.low,
              pos4 |-> Y.high * width + X.high,
              w1 |-> w.w1, w2 |-> w.w2, w3 |-> w.w3, w4 |-> w.w4]

(***************************************************************************)
(* State of one call of ROIAlign::forward.                                 *)
(***************************************************************************)
VARIABLES
    layer,        \* the ROIAlign object: pooled_width .. aligned (load_param)
    opt,          \* Option: num_threads
    bottom_blob,  \* bottom_blobs[0]: w, h, c and the pixels, channel after channel
    roi_blob,     \* bottom_blobs[1]: roi_ptr[0..3]
    top_blob,     \* top_blobs[0]: the pooled cells, <<>> while empty
    pre_calc,     \* std::vector<PreCalc<float>>, <<>> before it is constructed
    bld,          \* locals of pre_calc_for_bilinear_interpolate
    workers,      \* per channel q: the locals of one iteration of the parallel loop
    pc,           \* position of the calling thread in forward
    status        \* the value forward returned

vars == <<layer, opt, bottom_blob, roi_blob, top_blob, pre_calc, bld, workers, pc, status>>

NoStatus == "none"
Uninit == <<>>

width == bottom_blob.w
height == bottom_blob.h
channels == bottom_blob.c
pooled_width == layer.pooled_width
pooled_height == layer.pooled_height
grid_h == roi_bin_grid_h(layer, roi_blob)
grid_w == roi_bin_grid_w(layer, roi_blob)

\* mutant: every iteration addresses the first channel
ChannelBase_First(q, n) == 0

\* offset of channel q in a blob whose channels hold n elements (Mat::channel)
ChannelBase(q, n) == q * n

(***************************************************************************)
(* Inputs.                                                                 *)
(***************************************************************************)
Layers(scales, aligns) ==
    [pooled_width : 1..MaxPooled, pooled_height : 1..MaxPooled,
     spatial_scale : scales, sampling_ratio : 0..MaxRatio, aligned : aligns]

\* pixel (q, y, x) of feature map k = <<a, b, c, d>> is a + b*y + c*x + d*q
Pixel(k, q, y, x) == FromInt(k[1] + k[2] * y + k[3] * x + k[4] * q)

Blob(w, h, c, k) ==
    [w |-> w, h |-> h, c |-> c,
     data |-> [i \in 0..(c * h * w - 1) |->
                  Pixel(k, i \div (h * w), (i % (h * w)) \div w, i % w)]]

ConstantMap == <<-1, 0, 0, 0>>
GradientMap == <<1, 2, 1, 4>>
FeatureMaps == {ConstantMap, GradientMap}

Scales == {<<1, 1>>, <<1, 2>>}

\* ROI boxes (x1, y1, x2, y2) that forward returns a pooled map for: inside the
\* feature map, past its edges, smaller than one cell, empty
ValRoiBoxes ==
    { <<FromInt(0), FromInt(0), FromInt(2), FromInt(2)>>,
      <<FromInt(0), FromInt(0), FromInt(4), FromInt(3)>>,
      <<Half, FromInt(0), FromInt(2), FromInt(1)>>,
      <<FromInt(1), FromInt(1), FromInt(1), FromInt(1)>>,
      <<FromInt(2), <<7, 4>>, FromInt(2), FromInt(2)>>,
      <<FromInt(-2), FromInt(-1), FromInt(1), FromInt(1)>> }

\* and the boxes wholly outside the feature map or inverted on one or both axes
RoiBoxes ==
    ValRoiBoxes \cup
    { <<FromInt(-6), FromInt(0), FromInt(-3), FromInt(2)>>,
      <<FromInt(0), FromInt(2), FromInt(2), FromInt(0)>>,
      <<FromInt(4), FromInt(4), FromInt(0), FromInt(0)>> }

ParRoiBoxes ==
    { <<FromInt(0), FromInt(0), FromInt(2), FromInt(2)>>,
      <<FromInt(0), FromInt(2), FromInt(2), FromInt(0)>> }

InitWith(L, T, B, R) ==
    /\ layer = L
    /\ opt = [num_threads |-> T]
    /\ bottom_blob = B
    /\ roi_blob = R
    /\ top_blob = <<>>
    /\ pre_calc = <<>>
    /\ bld = [ph |-> 0, pw |-> 0, iy |-> 0, ix |-> 0, pre_calc_index |-> 0]
    /\ workers = <<>>
    /\ pc = "create"
    /\ status = NoStatus

\* one channel and one thread: every layer and ROI box, one feature map
Init ==
    \E L \in Layers(Scales, BOOLEAN), w \in 1..MaxDim, h \in 1..MaxDim, R \in RoiBoxes :
        InitWith(L, 1, Blob(w, h, 1, GradientMap), R)

\* one channel and one thread: every layer and feature map
InitVal ==
    \E L \in Layers(Scales, BOOLEAN), w \in 1..MaxDim, h \in 1..MaxDim,
       k \in FeatureMaps, R \in ValRoiBoxes :
        InitWith(L, 1, Blob(w, h, 1, k), R)

\* several channels and threads

\* the layers of the runs with several channels and threads
ParLayers ==
    [pooled_width : {1, 2}, pooled_height : {1, 2}, spatial_scale : {One},
     sampling_ratio : {0, 1}, aligned : {TRUE}]

InitPar ==
    \E L \in ParLayers, c \in 1..MaxChannels, T \in 1..MaxThreads, R \in ParRoiBoxes :
        InitWith(L, T, Blob(2, 2, c, GradientMap), R)

(***************************************************************************)
(* forward, up to the parallel loop.                                       *)
(***************************************************************************)
\* top_blob.create(...); if (top_blob.empty()) return -100;
Create ==
    /\ pc = "create"
    /\ \/ /\ top_blob' = [i \in 0..(channels * pooled_height * pooled_width - 1) |-> Uninit]
          /\ pc' = "prepare"
          /\ UNCHANGED status
       \/ /\ top_blob' = <<>>
          /\ pc' = "returned"
          /\ status' = -100
    /\ UNCHANGED <<layer, opt, bottom_blob, roi_blob, pre_calc, bld, workers>>

\* the first iteration of the four nested loops of the builder, if there is one
BldFirst ==
    IF grid_h > 0 /\ grid_w > 0
    THEN [ph |-> 0, pw |-> 0, iy |-> 0, ix |-> 0, pre_calc_index |-> 0]
    ELSE [ph |-> pooled_height, pw |-> 0, iy |-> 0, ix |-> 0, pre_calc_index |-> 0]

\* the ROI preprocessing, the construction of pre_calc and the call of the builder
Prepare ==
    /\ pc = "prepare"
    /\ IF pre_calc_size(layer, roi_blob) < 0
       THEN \* std::vector(size_type(n)) with n < 0: std::length_error leaves forward
            /\ pc' = "thrown"
            /\ UNCHANGED <<pre_calc, bld>>
       ELSE /\ pre_calc' = [i \in 0..(pre_calc_size(layer, roi_blob) - 1) |-> EmptyPreCalc]
            /\ bld' = BldFirst
            /\ pc' = "build"
    /\ UNCHANGED <<layer, opt, bottom_blob, roi_blob, top_blob, workers, status>>

\* the loop counters after one pass through the body of the innermost loop
BldAdvance(b) ==
    IF b.ix + 1 < grid_w THEN [b EXCEPT !.ix = b.ix + 1]
    ELSE IF b.iy + 1 < grid_h THEN [b EXCEPT !.ix = 0, !.iy = b.iy + 1]
    ELSE IF b.pw + 1 < pooled_width THEN [b EXCEPT !.ix = 0, !.iy = 0, !.pw = b.pw + 1]
    ELSE [b EXCEPT !.ix = 0, !.iy = 0, !.pw = 0, !.ph = b.ph + 1]

\* mutant: the "empty" path does not advance the index
NextIndex_SkipEmpty(index, pcv) == IF pcv = EmptyPreCalc THEN index ELSE index + 1

\* pre_calc_index += 1, on the "empty" path and on the regular path
NextIndex(index, pcv) == index + 1

\* one pass through the body of the innermost loop of the builder
PreCalcStep ==
    /\ pc = "build"
    /\ bld.ph < pooled_height
    /\ LET pcv == Stencil(yy(layer, roi_blob, bld.ph, bld.iy),
                          xx(layer, roi_blob, bld.pw, bld.ix), height, width)
       IN  /\ pre_calc' = [pre_calc EXCEPT ![bld.pre_calc_index] = pcv]
           /\ bld' = [BldAdvance(bld) EXCEPT !.pre_calc_index = NextIndex(bld.pre_calc_index, pcv)]
    /\ UNCHANGED <<layer, opt, bottom_blob, roi_blob, top_blob, workers, pc, status>>

\* the builder returns and the parallel region is entered
EnterParallel ==
    /\ pc = "build"
    /\ bld.ph >= pooled_height
    /\ workers' = [q \in 0..(channels - 1) |->
                      [state |-> "todo", ph |-> 0, pw |-> 0, iy |-> 0, ix |-> 0,
                       output_val |-> Zero, pre_calc_index |-> 0, outptr |-> 0]]
    /\ pc' = "parallel"
    /\ UNCHANGED <<layer, opt, bottom_blob, roi_blob, top_blob, pre_calc, bld, status>>

(***************************************************************************)
(* The parallel loop over the channels.  Every iteration q has its own      *)
(* ptr, outptr, pre_calc_index, loop counters and output_val; at most       *)
(* opt.num_threads iterations are in progress at a time, in any order.      *)
(***************************************************************************)
Running == {q \in DOMAIN workers : workers[q].state = "run"}

\* const float* ptr = bottom_blob.channel(q); float* outptr = top_blob.channel(q);
\* int pre_calc_index = 0;
StartChannel(q) ==
    /\ pc = "parallel"
    /\ workers[q].state = "todo"
    /\ Cardinality(Running) < opt.num_threads
    /\ workers' = [workers EXCEPT ![q] =
                      [state |-> "run", ph |-> 0, pw |-> 0, iy |-> 0, ix |-> 0,
                       output_val |-> Zero, pre_calc_index |-> 0,
                       outptr |-> ChannelBase(q, pooled_width * pooled_height)]]
    /\ UNCHANGED <<layer, opt, bottom_blob, roi_blob, top_blob, pre_calc, bld, pc, status>>

\* the values ptr[pos] can yield: the pixel, or anything when pos is outside the channel
Load(q, pos) ==
    IF pos \in 0..(width * height - 1)
    THEN {bottom_blob.data[ChannelBase(q, width * height) + pos]}
    ELSE {bottom_blob.data[i] : i \in DOMAIN bottom_blob.data} \cup {Zero}

\* pc.w1 * ptr[pc.pos1] + ... + pc.w4 * ptr[pc.pos4] for loaded values v1..v4
Interpolate(s, v1, v2, v3, v4) ==
    RAdd(RAdd(RAdd(RMul(s.w1, v1), RMul(s.w2, v2)), RMul(s.w3, v3)), RMul(s.w4, v4))

\* iteration q is inside the two sampling loops of its current cell
InCell(w) == w.iy < grid_h /\ w.ix < grid_w

\* one pass through the body of the innermost loop of iteration q
Sample(q) ==
    /\ pc = "parallel"
    /\ workers[q].state = "run"
    /\ InCell(workers[q])
    /\ LET w == workers[q]
           s == IF w.pre_calc_index \in DOMAIN pre_calc
                THEN {pre_calc[w.pre_calc_index]}
                ELSE {pre_calc[i] : i \in DOMAIN pre_calc} \cup {EmptyPreCalc}
       IN  \E p \in s :
           \E v1 \in Load(q, p.pos1), v2 \in Load(q, p.pos2),
              v3 \in Load(q, p.pos3), v4 \in Load(q, p.pos4) :
               workers' = [workers EXCEPT ![q] =
                   [w EXCEPT !.output_val = RAdd(w.output_val, Interpolate(p, v1, v2, v3, v4)),
                             !.pre_calc_index = w.pre_calc_index + 1,
                             !.ix = IF w.ix + 1 < grid_w THEN w.ix + 1 ELSE 0,
                             !.iy = IF w.ix + 1 < grid_w THEN w.iy ELSE w.iy + 1]]
    /\ UNCHANGED <<layer, opt, bottom_blob, roi_blob, top_blob, pre_calc, bld, pc, status>>

\* output_val /= count; outptr[pw] = output_val; and the two outer loops advance
Store(q) ==
    /\ pc = "parallel"
    /\ workers[q].state = "run"
    /\ ~InCell(workers[q])
    /\ LET w == workers[q]
           val == RDiv(w.output_val, FromInt(count(layer, roi_blob)))
           lastpw == w.pw + 1 >= pooled_width
           lastph == lastpw /\ w.ph + 1 >= pooled_height
       IN  /\ top_blob' = [top_blob EXCEPT ![w.outptr + w.pw] = val]
           /\ workers' = [workers EXCEPT ![q] =
                 [w EXCEPT !.output_val = Zero, !.iy = 0, !.ix = 0,
                           !.pw = IF lastpw THEN 0 ELSE w.pw + 1,
                           !.ph = IF lastpw THEN w.ph + 1 ELSE w.ph,
                           !.outptr = IF lastpw THEN w.outptr + pooled_width ELSE w.outptr,
                           !.state = IF lastph THEN "done" ELSE "run"]]
    /\ UNCHANGED <<layer, opt, bottom_blob, roi_blob, pre_calc, bld, pc, status>>

\* every iteration has ended: the parallel region is left and forward returns 0
Join ==
    /\ pc = "parallel"
    /\ \A q \in DOMAIN workers : workers[q].state = "done"
    /\ pc' = "returned"
    /\ status' = 0
    /\ UNCHANGED <<layer, opt, bottom_blob, roi_blob, top_blob, pre_calc, bld, workers>>

Next ==
    \/ Create
    \/ Prepare
    \/ PreCalcStep
    \/ EnterParallel
    \/ \E q \in DOMAIN workers : StartChannel(q)
    \/ \E q \in DOMAIN workers : Sample(q)
    \/ \E q \in DOMAIN workers : Store(q)
    \/ Join

Spec == Init /\ [][Next]_vars

SpecVal == InitVal /\ [][Next]_vars

SpecPar == InitPar /\ [][Next]_vars

(***************************************************************************)
(* The loop nest of one channel as a function of the inputs: the value of   *)
(* cell (q, ph, pw) when the channels are processed one after another.      *)
(***************************************************************************)
SampleValue(L, B, roi, q, ph, pw, iy, ix) ==
    LET s == Stencil(yy(L, roi, ph, iy), xx(L, roi, pw, ix), B.h, B.w)
        px(pos) == B.data[ChannelBase(q, B.w * B.h) + pos]
    IN  Interpolate(s, px(s.pos1), px(s.pos2), px(s.pos3), px(s.pos4))

\* the sum of the samples (iy, 0 .. n-1) of cell (q, ph, pw)
RowSum(L, B, roi, q, ph, pw, iy, n) ==
    LET acc[k \in 0..IMax(n, 0)] ==
            IF k = 0 THEN Zero
            ELSE LET prev == acc[k - 1]
                     v == SampleValue(L, B, roi, q, ph, pw, iy, k - 1)
                 IN  IF prev = Zero THEN v ELSE RAdd(prev, v)
    IN  acc[IMax(n, 0)]

\* the sum of the samples of rows 0 .. n-1 of cell (q, ph, pw); the sums are exact,
\* so adding row by row gives the value the flat accumulation of the code gives
CellSum(L, B, roi, q, ph, pw, n) ==
    LET acc[k \in 0..IMax(n, 0)] ==
            IF k = 0 THEN Zero
            ELSE LET prev == acc[k - 1]
                     v == RowSum(L, B, roi, q, ph, pw, k - 1, roi_bin_grid_w(L, roi))
                 IN  IF prev = Zero THEN v ELSE RAdd(prev, v)
    IN  acc[IMax(n, 0)]

CellValue(L, B, roi, q, ph, pw) ==
    RDiv(CellSum(L, B, roi, q, ph, pw, roi_bin_grid_h(L, roi)), FromInt(count(L, roi)))

\* number of cells of one channel of the output
CellsPerChannel(L) == L.pooled_width * L.pooled_height

\* cell i of the output blob, channel after channel, row after row
OutputCell(L, B, roi, i) ==
    CellValue(L, B, roi, i \div CellsPerChannel(L),
              (i % CellsPerChannel(L)) \div L.pooled_width, i % L.pooled_width)

(***************************************************************************)
(* Vocabulary of the properties.                                           *)
(***************************************************************************)
Returned0 == pc = "returned" /\ status = 0
BuildDone == pc = "build" /\ bld.ph >= pooled_height
GridsPositive == grid_h >= 1 /\ grid_w >= 1

\* the ROI in feature-map coordinates, before offset and clamp
ScaledX1 == RMul(roi_blob[1], layer.spatial_scale)
ScaledY1 == RMul(roi_blob[2], layer.spatial_scale)
ScaledX2 == RMul(roi_blob[3], layer.spatial_scale)
ScaledY2 == RMul(roi_blob[4], layer.spatial_scale)
ScaledWidth == RSub(ScaledX2, ScaledX1)
ScaledHeight == RSub(ScaledY2, ScaledY1)

RoiInside ==
    /\ \A x \in {ScaledX1, ScaledX2} : RLe(Zero, x) /\ RLe(x, FromInt(width))
    /\ \A y \in {ScaledY1, ScaledY2} : RLe(Zero, y) /\ RLe(y, FromInt(height))

IsConstantMap == \A i \in DOMAIN bottom_blob.data : bottom_blob.data[i] = bottom_blob.data[0]

\* the loop counters (ph, pw, iy, ix) of position i of the row-major enumeration
RowMajor(ph, pw, iy, ix) == ((ph * pooled_width + pw) * grid_h + iy) * grid_w + ix
IdxPh(i) == i \div (pooled_width * grid_h * grid_w)
IdxPw(i) == (i \div (grid_h * grid_w)) % pooled_width
IdxIy(i) == (i \div grid_w) % grid_h
IdxIx(i) == i % grid_w

\* the sample point of position i
CoordY(i) == yy(layer, roi_blob, IdxPh(i), IdxIy(i))
CoordX(i) == xx(layer, roi_blob, IdxPw(i), IdxIx(i))

\* the sample point (y, x) lies more than 1 beyond an edge of the feature map
BeyondMargin(y, x) ==
    \/ RLt(y, FromInt(-1)) \/ RLt(FromInt(height), y)
    \/ RLt(x, FromInt(-1)) \/ RLt(FromInt(width), x)

PosOf(s) == {s.pos1, s.pos2, s.pos3, s.pos4}
WeightsOf(s) == {s.w1, s.w2, s.w3, s.w4}
WeightSum(s) == RAdd(RAdd(RAdd(s.w1, s.w2), s.w3), s.w4)

AllCells(v) == \A i \in DOMAIN top_blob : top_blob[i] = v

(***************************************************************************)
(* C1  Averaging.  As claimed: on a constant feature map of value v, for    *)
(* every ROI inside the feature map, forward returns v in every cell.      *)
(* The code returns 0 instead for an empty ROI under adaptive sampling, and *)
(* for a non-aligned ROI thinner than one cell whose widened box leaves the *)
(* map.                                                                    *)
(***************************************************************************)
C1_AveragingAsClaimed ==
    (Returned0 /\ IsConstantMap /\ RoiInside) => AllCells(bottom_blob.data[0])

\* C1 amended: on a constant feature map of value v, for every ROI inside the
\* feature map whose scaled width and height are >= 1 when aligned is false and
\* > 0 when the sampling ratio is adaptive, every output cell equals v.
C1_Averaging ==
    (/\ Returned0 /\ IsConstantMap /\ RoiInside
     /\ ~layer.aligned => RLe(One, ScaledWidth) /\ RLe(One, ScaledHeight)
     /\ layer.sampling_ratio <= 0 => RLt(Zero, ScaledWidth) /\ RLt(Zero, ScaledHeight))
    => AllCells(bottom_blob.data[0])

C1_Witness ==
    /\ Returned0 /\ IsConstantMap /\ RoiInside
    /\ RLe(One, ScaledWidth) /\ RLe(One, ScaledHeight)
    /\ layer.sampling_ratio <= 0
    /\ bottom_blob.data[0] # Zero
    /\ \E i \in DOMAIN pre_calc : pre_calc[i].w1 \notin {Zero, One}
    /\ AllCells(bottom_blob.data[0])

(***************************************************************************)
(* C2  In-bounds addressing: the four offsets of every stencil of pre_calc  *)
(* lie in [0, height*width), row in [0, height) and column in [0, width).   *)
(***************************************************************************)
InChannel(s) ==
    \A pos \in PosOf(s) :
        /\ pos \in 0..(height * width - 1)
        /\ pos \div width \in 0..(height - 1)
        /\ pos % width \in 0..(width - 1)

C2_InBounds ==
    /\ BuildDone => \A i \in DOMAIN pre_calc : InChannel(pre_calc[i])
    /\ pc = "parallel" =>
          \A q \in DOMAIN workers :
              (workers[q].state = "run" /\ InCell(workers[q])) =>
                  /\ workers[q].pre_calc_index \in DOMAIN pre_calc
                  /\ InChannel(pre_calc[workers[q].pre_calc_index])

\* a sample point off the pixel grid, not "empty", clamped to the last row or column
C2_Witness ==
    /\ Returned0 /\ GridsPositive
    /\ \E i \in DOMAIN pre_calc :
          /\ pre_calc[i] # EmptyPreCalc
          /\ \/ RLt(FromInt(width - 1), CoordX(i))
             \/ RLt(FromInt(height - 1), CoordY(i))
          /\ RLt(CoordX(i), Zero) \/ RLt(CoordY(i), Zero) \/ pre_calc[i].pos4 = height * width - 1

(***************************************************************************)
(* C3  Weight normalization: a stencil the builder has stored is the        *)
(* all-zero one exactly when its sample point has y < -1, y > height,       *)
(* x < -1 or x > width; otherwise its weights are >= 0 and sum to 1.        *)
(***************************************************************************)
C3_WeightNormalization ==
    (BuildDone /\ GridsPositive) =>
        \A i \in 0..(bld.pre_calc_index - 1) :
            IF BeyondMargin(CoordY(i), CoordX(i))
            THEN pre_calc[i] = EmptyPreCalc
            ELSE /\ \A w \in WeightsOf(pre_calc[i]) : RLe(Zero, w)
                 /\ WeightSum(pre_calc[i]) = One

C3_Witness ==
    /\ Returned0 /\ GridsPositive
    /\ \E i \in DOMAIN pre_calc :
          BeyondMargin(CoordY(i), CoordX(i)) /\ pre_calc[i] = EmptyPreCalc
    /\ \E i \in DOMAIN pre_calc :
          /\ \A w \in WeightsOf(pre_calc[i]) : RLt(Zero, w)
          /\ WeightSum(pre_calc[i]) = One

CellNo(w) == w.ph * pooled_width + w.pw
AtStore(w) == w.state = "run" /\ ~InCell(w)

C5_NoError ==
    /\ pc # "thrown"
    /\ pc \in {"build", "thrown"} => pre_calc_size(layer, roi_blob) >= 0
    /\ (pc = "build" /\ bld.ph < pooled_height) => bld.pre_calc_index \in DOMAIN pre_calc
    /\ \A q \in DOMAIN workers :
          (workers[q].state = "run" /\ InCell(workers[q])) =>
              workers[q].pre_calc_index \in DOMAIN pre_calc

(***************************************************************************)
(* C6  Allocation failure: forward ends in one of two ways only, status 0   *)
(* with every output cell written, or status -100 with no stencil built     *)
(* and no output cell written.                                             *)
(***************************************************************************)
C6_TwoOutcomes ==
    pc \in {"returned", "thrown"} =>
        /\ pc = "returned"
        /\ \/ status = 0 /\ top_blob # <<>> /\ \A i \in DOMAIN top_blob : top_blob[i] # Uninit
           \/ status = -100 /\ top_blob = <<>> /\ pre_calc = <<>> /\ workers = <<>>

(***************************************************************************)
(* C7  Thread-count independence: the stencils are complete before the      *)
(* first channel starts and stay as built; every channel advances its own   *)
(* cursor; the cells of channel q are written by q alone, in order, with    *)
(* the values of the sequential computation, so that at the return the      *)
(* output is the sequential one for every thread count and interleaving.    *)
(***************************************************************************)
\* number of cells iteration q has stored
CellsDone(w) ==
    IF w.state = "todo" THEN 0
    ELSE IF w.state = "done" THEN pooled_width * pooled_height
    ELSE CellNo(w)

C7_ThreadIndependence ==
    /\ (pc \in {"parallel", "returned"} /\ pre_calc # <<>> /\ GridsPositive) =>
          \A i \in DOMAIN pre_calc :
              pre_calc[i] = Stencil(CoordY(i), CoordX(i), height, width)
    /\ pc = "parallel" =>
          \A q \in DOMAIN workers :
              /\ Cardinality(Running) <= opt.num_threads
              /\ (workers[q].state = "run" /\ GridsPositive) =>
                    workers[q].pre_calc_index =
                        RowMajor(workers[q].ph, workers[q].pw, workers[q].iy, workers[q].ix)
              /\ \A j \in 0..(CellsPerChannel(layer) - 1) :
                    top_blob[q * CellsPerChannel(layer) + j] =
                        IF j < CellsDone(workers[q])
                        THEN OutputCell(layer, bottom_blob, roi_blob, q * CellsPerChannel(layer) + j)
                        ELSE Uninit
    /\ Returned0 =>
          \A i \in DOMAIN top_blob : top_blob[i] = OutputCell(layer, bottom_blob, roi_blob, i)

\* two channels in progress at once, each past its first sample
C7_Witness ==
    /\ pc = "parallel"
    /\ \E q1, q2 \in DOMAIN workers :
          /\ q1 # q2
          /\ workers[q1].state = "run" /\ workers[q1].pre_calc_index >= 1
          /\ workers[q2].state = "run" /\ workers[q2].pre_calc_index >= 1
          /\ top_blob[q1 * CellsPerChannel(layer)] # top_blob[q2 * CellsPerChannel(layer)]

(***************************************************************************)
(* C8  Aligned-offset equivalence: forward with aligned = false on a ROI    *)
(* whose scaled width and height are >= 1 returns the output of forward     *)
(* with aligned = true on the ROI shifted by +0.5 / spatial_scale.          *)
(***************************************************************************)
ShiftedRoi ==
    [c \in 1..4 |-> RAdd(roi_blob[c], RDiv(Half, layer.spatial_scale))]

C8_AlignedEquivalence ==
    (Returned0 /\ ~layer.aligned /\ RLe(One, ScaledWidth) /\ RLe(One, ScaledHeight)) =>
        \A i \in DOMAIN top_blob :
            top_blob[i] = OutputCell([layer EXCEPT !.aligned = TRUE], bottom_blob, ShiftedRoi, i)

C8_Witness ==
    /\ Returned0 /\ ~layer.aligned /\ RLe(One, ScaledWidth) /\ RLe(One, ScaledHeight)
    /\ layer.spatial_scale # One
    /\ ~IsConstantMap
    /\ \E i, j \in DOMAIN top_blob : top_blob[i] # top_blob[j]

(***************************************************************************)
(* C9  Sentinel correctness.  As claimed: a cell with a sample point more   *)
(* than 1 beyond an edge has a value strictly less than the average of its  *)
(* in-range samples.  On a feature map of value 0 it is equal, on a         *)
(* negative one greater.                                                   *)
(***************************************************************************)
SampleBeyond(ph, pw, iy, ix) ==
    BeyondMargin(yy(layer, roi_blob, ph, iy), xx(layer, roi_blob, pw, ix))

InRangeSamples(ph, pw) ==
    {s \in (0..(grid_h - 1)) \X (0..(grid_w - 1)) : ~SampleBeyond(ph, pw, s[1], s[2])}

HasBeyond(ph, pw) ==
    \E s \in (0..(grid_h - 1)) \X (0..(grid_w - 1)) : SampleBeyond(ph, pw, s[1], s[2])

\* the sum of the in-range samples among (iy, 0 .. n-1) of cell (q, ph, pw)
InRangeRowSum(q, ph, pw, iy, n) ==
    LET acc[k \in 0..IMax(n, 0)] ==
            IF k = 0 THEN Zero
            ELSE LET prev == acc[k - 1]
                     v == IF SampleBeyond(ph, pw, iy, k - 1) THEN Zero
                          ELSE SampleValue(layer, bottom_blob, roi_blob, q, ph, pw, iy, k - 1)
                 IN  IF prev = Zero THEN v ELSE RAdd(prev, v)
    IN  acc[IMax(n, 0)]

\* the sum of the in-range samples of cell (q, ph, pw)
InRangeSum(q, ph, pw) ==
    LET acc[k \in 0..IMax(grid_h, 0)] ==
            IF k = 0 THEN Zero
            ELSE LET prev == acc[k - 1]
                     v == InRangeRowSum(q, ph, pw, k - 1, grid_w)
                 IN  IF prev = Zero THEN v ELSE RAdd(prev, v)
    IN  acc[IMax(grid_h, 0)]

InRangeAverage(q, ph, pw) ==
    RDiv(InRangeSum(q, ph, pw), FromInt(Cardinality(InRangeSamples(ph, pw))))

CellAt(q, ph, pw) == top_blob[(q * pooled_height + ph) * pooled_width + pw]

Cells == (0..(channels - 1)) \X (0..(pooled_height - 1)) \X (0..(pooled_width - 1))

C9_StrictlyLessAsClaimed ==
    (Returned0 /\ GridsPositive) =>
        \A c \in Cells :
            (HasBeyond(c[2], c[3]) /\ InRangeSamples(c[2], c[3]) # {}) =>
                RLt(CellAt(c[1], c[2], c[3]), InRangeAverage(c[1], c[2], c[3]))

\* C9 amended: a sample point more than 1 beyond an edge adds 0 to the sum of its
\* cell and is counted in the divisor, so a cell with such a sample equals the sum
\* of its in-range samples divided by roi_bin_grid_h * roi_bin_grid_w; that is
\* strictly less than the average of its in-range samples exactly when that sum is
\* positive.
C9_Sentinel ==
    (Returned0 /\ GridsPositive) =>
        \A c \in Cells :
            HasBeyond(c[2], c[3]) =>
                /\ CellAt(c[1], c[2], c[3]) =
                      RDiv(InRangeSum(c[1], c[2], c[3]), FromInt(grid_h * grid_w))
                /\ InRangeSamples(c[2], c[3]) # {} =>
                      (RLt(CellAt(c[1], c[2], c[3]), InRangeAverage(c[1], c[2], c[3]))
                          <=> RLt(Zero, InRangeSum(c[1], c[2], c[3])))

C9_Witness ==
    /\ Returned0 /\ GridsPositive
    /\ \E c \in Cells :
          /\ HasBeyond(c[2], c[3])
          /\ InRangeSamples(c[2], c[3]) # {}
          /\ RLt(Zero, CellAt(c[1], c[2], c[3]))
          /\ RLt(CellAt(c[1], c[2], c[3]), InRangeAverage(c[1], c[2], c[3]))

(***************************************************************************)
(* C10  Stencil sequence.  As claimed: the builder writes every index of    *)
(* pre_calc and every cursor ends at the length of pre_calc.  When both     *)
(* grids are negative pre_calc has a positive length, nothing is written    *)
(* and every cursor stays 0.                                               *)
(***************************************************************************)
C10_CursorEndsAtLengthAsClaimed ==
    Returned0 =>
        /\ bld.pre_calc_index = pre_calc_size(layer, roi_blob)
        /\ \A q \in DOMAIN workers : workers[q].pre_calc_index = pre_calc_size(layer, roi_blob)

\* C10 amended: when roi_bin_grid_h and roi_bin_grid_w are both >= 1 the builder
\* writes the indices 0 .. length-1 once each in row-major (ph, pw, iy, ix) order,
\* every channel reads sample (iy, ix) of cell (ph, pw) at the index the builder
\* stored it at, and every cursor ends at the length; otherwise (and forward does
\* not throw) nothing is written or read and every cursor stays 0.
C10_StencilSequence ==
    /\ (pc = "build" /\ GridsPositive) =>
          /\ bld.ph < pooled_height =>
                bld.pre_calc_index = RowMajor(bld.ph, bld.pw, bld.iy, bld.ix)
          /\ bld.ph >= pooled_height =>
                /\ bld.pre_calc_index = pre_calc_size(layer, roi_blob)
                /\ DOMAIN pre_calc = 0..(bld.pre_calc_index - 1)
          /\ \A i \in (IF bld.ph >= pooled_height THEN 0 ELSE IMax(bld.pre_calc_index - 1, 0))
                       ..(bld.pre_calc_index - 1) :
                /\ i = RowMajor(IdxPh(i), IdxPw(i), IdxIy(i), IdxIx(i))
                /\ pre_calc[i] = Stencil(CoordY(i), CoordX(i), height, width)
          /\ bld.pre_calc_index \in DOMAIN pre_calc =>
                pre_calc[bld.pre_calc_index] = EmptyPreCalc
    /\ (pc \in {"parallel", "returned"} /\ pre_calc # <<>> /\ GridsPositive) =>
          \A q \in DOMAIN workers :
              /\ (workers[q].state = "run" /\ InCell(workers[q])) =>
                    /\ workers[q].pre_calc_index =
                          RowMajor(workers[q].ph, workers[q].pw, workers[q].iy, workers[q].ix)
                    /\ pre_calc[workers[q].pre_calc_index] =
                          Stencil(yy(layer, roi_blob, workers[q].ph, workers[q].iy),
                                  xx(layer, roi_blob, workers[q].pw, workers[q].ix),
                                  height, width)
              /\ workers[q].state = "done" =>
                    workers[q].pre_calc_index = pre_calc_size(layer, roi_blob)
    /\ (pc \in {"build", "parallel", "returned"} /\ top_blob # <<>> /\ ~GridsPositive) =>
          /\ bld.pre_calc_index = 0
          /\ \A i \in DOMAIN pre_calc : pre_calc[i] = EmptyPreCalc
          /\ \A q \in DOMAIN workers : workers[q].pre_calc_index = 0

C10_Witness ==
    /\ Returned0 /\ grid_h >= 2 /\ grid_w >= 2 /\ pooled_width >= 2 /\ pooled_height >= 2
    /\ bld.pre_calc_index = pre_calc_size(layer, roi_blob)
    /\ \E i, j \in DOMAIN pre_calc : pre_calc[i] = EmptyPreCalc /\ pre_calc[j] # EmptyPreCalc
    /\ \A q \in DOMAIN workers : workers[q].pre_calc_index = pre_calc_size(layer, roi_blob)

====
